---- MODULE Spec2Model ----
(***************************************************************************)
(* Model of package nface (src/nface/nface.go): a Client built by         *)
(* NewClient or TestClient, and Client.Do with its steps buildRequest,    *)
(* doRequest (transport call, validation, body read) and json.Unmarshal.  *)
(*                                                                         *)
(* A Go string is a sequence of tokens.  A token is either one character  *)
(* that URL handling treats specially (" ", "&", "=", "%", "+", "?", hex  *)
(* digits of an escape) or a chunk of unreserved characters.              *)
(***************************************************************************)
EXTENDS Integers, Sequences, FiniteSets, TLC

\* ---------------------------------------------------------------- bounds
MaxValsPerKey == 2

\* ------------------------------------------------------------- constants
GET == 0
POST == 1
StatusOK == 200

authURL == <<"https://www.reddit.com/api/v1/access_token">>
baseURL == <<"https://oauth.reddit.com/api">>
contentType == "application/x-www-form-urlencoded"

\* The nil pointer / nil interface value.
Nil == [nil |-> TRUE]

\* ------------------------------------------------------------ input sets
\* Values of reqAction the caller can pass: the type is an open int.
Actions == {GET, POST, 2}
\* Request paths: a well-formed one and one with a dangling "%" escape.
Paths == {<<"/me">>, <<"/", "%">>}
\* Parameter keys and values, with characters that need escaping.
Keys == {<<"b">>, <<"a", "&">>}
Vals == {<<"x", " ">>, <<"&", "=", "%">>}
\* Base URLs handed to TestClient.
TestURLs == {<<"http://test">>}
\* Identification strings of a data.UserAgent.
UserAgents == {"graw-agent"}
\* What the caller passes as the decode target.
Targets == {"compatible", "nil"}
\* Response status codes and body contents the server may send.
Statuses == {StatusOK, 404}
Contents == {<< >>, <<"{\"a\":1}">>, <<"<html>">>}
ValidJSON == {<<"{\"a\":1}">>}

ValLists == UNION {[1..n -> Vals] : n \in 0..MaxValsPerKey}
\* url.Values: a map from keys to lists of values.
ValueMaps == UNION {[D -> ValLists] : D \in SUBSET Keys}
\* *url.Values: nil or a pointer to a map.
ValuePtrs == {Nil} \cup {[nil |-> FALSE, m |-> v] : v \in ValueMaps}
Requests == [Action : Actions, URL : Paths, Values : ValuePtrs]

\* ----------------------------------------------------- strings, escaping
\* Byte value of the first character of a token.
Ord(t) ==
    CASE t = " " -> 32
      [] t = "%" -> 37
      [] t = "&" -> 38
      [] t = "+" -> 43
      [] t = "=" -> 61
      [] t = "?" -> 63
      [] t = "a" -> 97
      [] t = "b" -> 98
      [] t = "x" -> 120
      [] OTHER -> 47

\* s < t in Go's string order (byte-wise lexicographic).
RECURSIVE StrLess(_, _)
StrLess(s, t) ==
    IF t = << >> THEN FALSE
    ELSE IF s = << >> THEN TRUE
    ELSE IF Ord(Head(s)) # Ord(Head(t)) THEN Ord(Head(s)) < Ord(Head(t))
    ELSE StrLess(Tail(s), Tail(t))

\* sort.Strings over the keys of a map.
RECURSIVE SortedKeys(_)
SortedKeys(S) ==
    IF S = {} THEN << >>
    ELSE LET k == CHOOSE x \in S : \A y \in S \ {x} : StrLess(x, y)
         IN  <<k>> \o SortedKeys(S \ {k})

\* url.QueryEscape of one token.
EscapeTok(t) ==
    CASE t = " " -> <<"+">>
      [] t = "%" -> <<"%", "2", "5">>
      [] t = "&" -> <<"%", "2", "6">>
      [] t = "+" -> <<"%", "2", "B">>
      [] t = "=" -> <<"%", "3", "D">>
      [] t = "?" -> <<"%", "3", "F">>
      [] OTHER -> <<t>>

\* Variant: nothing is escaped.
QueryEscapeNone(s) == s

RECURSIVE QueryEscape(_)
QueryEscape(s) ==
    IF s = << >> THEN << >> ELSE EscapeTok(Head(s)) \o QueryEscape(Tail(s))

\* The inner loop of Values.Encode: the values of one key appended to buf.
RECURSIVE EncodeKey(_, _, _)
EncodeKey(buf, k, vs) ==
    IF vs = << >> THEN buf
    ELSE EncodeKey((IF Len(buf) > 0 THEN buf \o <<"&">> ELSE buf)
                       \o QueryEscape(k) \o <<"=">> \o QueryEscape(Head(vs)),
                   k, Tail(vs))

RECURSIVE EncodeKeys(_, _, _)
EncodeKeys(buf, v, keys) ==
    IF keys = << >> THEN buf
    ELSE EncodeKeys(EncodeKey(buf, Head(keys), v[Head(keys)]), v, Tail(keys))

\* url.Values.Encode: "k=v&k=v" sorted by key.
Encode(v) == EncodeKeys(<< >>, v, SortedKeys(DOMAIN v))

IsHex(t) == t \in {"0", "1", "2", "3", "4", "5", "6", "7", "8", "9",
                   "A", "B", "C", "D", "E", "F"}

\* url.Parse inside http.NewRequest accepts the URL: every "%" starts a
\* two-digit hex escape.
ValidURL(u) ==
    \A i \in 1..Len(u) :
        u[i] = "%" => /\ i + 2 <= Len(u)
                      /\ IsHex(u[i + 1])
                      /\ IsHex(u[i + 2])

\* ------------------------------------------------------------ error values
\* A non-nil error; code carries the status code of a bad-status error.
Err(msg) == [nil |-> FALSE, msg |-> msg, code |-> 0]
BadStatus(code) == [nil |-> FALSE, msg |-> "bad status", code |-> code]

\* ------------------------------------------------------------ http.Request
HeaderKeys == {"User-Agent", "Content-Type"}

\* textproto.CanonicalMIMEHeaderKey, applied by Header.Add and Header.Set.
CanonicalKey(k) ==
    CASE k = "user-agent" -> "User-Agent"
      [] k = "content-type" -> "Content-Type"
      [] OTHER -> k

EmptyHeader == [k \in HeaderKeys |-> << >>]
HeaderAdd(h, k, v) == [h EXCEPT ![CanonicalKey(k)] = Append(@, v)]
HeaderSet(h, k, v) == [h EXCEPT ![CanonicalKey(k)] = <<v>>]

\* http.NewRequest: parses the URL, wraps the body.
NewRequest(method, url, body) ==
    IF ~ValidURL(url)
    THEN [req |-> Nil, err |-> Err("invalid URL escape")]
    ELSE [req |-> [nil |-> FALSE, Method |-> method, URL |-> url,
                   Body |-> body, Header |-> EmptyHeader],
          err |-> Nil]

\* bytes.NewBufferString(s) as a request body.
BodyOf(s) == [nil |-> FALSE, data |-> s]

\* Variant: nil values are encoded as an empty form instead of rejected.
postRequestNoNilCheck(url, vals) ==
    LET m == IF vals = Nil THEN [k \in {} |-> << >>] ELSE vals.m
        res == NewRequest("POST", url, BodyOf(Encode(m)))
    IN  IF res.err # Nil
        THEN [req |-> Nil, err |-> res.err]
        ELSE [req |-> [res.req EXCEPT
                         !.Header = HeaderSet(@, "content-type", contentType)],
              err |-> Nil]

\* Variant: the content-type header is not set.
postRequestNoContentType(url, vals) ==
    IF vals = Nil
    THEN [req |-> Nil, err |-> Err("no values for POST body")]
    ELSE NewRequest("POST", url, BodyOf(Encode(vals.m)))

postRequest(url, vals) ==
    IF vals = Nil
    THEN [req |-> Nil, err |-> Err("no values for POST body")]
    ELSE LET res == NewRequest("POST", url, BodyOf(Encode(vals.m)))
         IN  IF res.err # Nil
             THEN [req |-> Nil, err |-> res.err]
             ELSE [req |-> [res.req EXCEPT
                              !.Header = HeaderSet(@, "content-type", contentType)],
                   err |-> Nil]

getRequest(url, vals) ==
    LET reqURL == IF vals # Nil THEN url \o <<"?">> \o Encode(vals.m) ELSE url
    IN  NewRequest("GET", reqURL, Nil)

\* data.UserAgent.GetUserAgent: a generated getter, safe on a nil receiver.
GetUserAgent(ua) == IF ua = Nil THEN "" ELSE ua.UserAgent

\* Variant: an unrecognised action is reported as an error.
buildRequestStrict(cl, rq) ==
    LET callURL == cl.baseURL \o rq.URL
        res == IF rq.Action = GET THEN getRequest(callURL, rq.Values)
               ELSE IF rq.Action = POST THEN postRequest(callURL, rq.Values)
               ELSE [req |-> Nil, err |-> Err("unknown action")]
    IN  IF res.err # Nil
        THEN [req |-> Nil, err |-> res.err, panic |-> FALSE]
        ELSE [req |-> [res.req EXCEPT
                         !.Header = HeaderAdd(@, "user-agent",
                                              GetUserAgent(cl.userAgent))],
              err |-> Nil, panic |-> FALSE]

\* Client.buildRequest.  panic is the nil dereference of req.Header when
\* neither branch assigned req.
buildRequest(cl, rq) ==
    LET callURL == cl.baseURL \o rq.URL
        res == IF rq.Action = GET THEN getRequest(callURL, rq.Values)
               ELSE IF rq.Action = POST THEN postRequest(callURL, rq.Values)
               ELSE [req |-> Nil, err |-> Nil]
    IN  IF res.err # Nil
        THEN [req |-> Nil, err |-> res.err, panic |-> FALSE]
        ELSE IF res.req = Nil
        THEN [req |-> Nil, err |-> Nil, panic |-> TRUE]
        ELSE [req |-> [res.req EXCEPT
                         !.Header = HeaderAdd(@, "user-agent",
                                              GetUserAgent(cl.userAgent))],
              err |-> Nil, panic |-> FALSE]

\* json.Unmarshal(data, target): syntax is checked before the target.
Unmarshal(data, tgt) ==
    IF data = << >> THEN Err("unexpected end of JSON input")
    ELSE IF data \notin ValidJSON THEN Err("invalid character")
    ELSE IF tgt = "nil" THEN Err("json: Unmarshal(nil)")
    ELSE Nil

\* ------------------------------------------------------------------ state
VARIABLES
    c,              \* the *Client the constructor returned (Nil before)
    ncErr,          \* the error the constructor returned
    pc,             \* "new", "idle", or the position inside Client.Do
    r,              \* the Request of the current (or last) Do call
    target,         \* the decode target of that call
    req,            \* the *http.Request buildRequest returned
    resp,           \* the *http.Response the transport returned
    buf,            \* the bytes doRequest returned
    bodyClosed,     \* resp.Body.Close() has run
    result,         \* what Do returned: Nil while running
    transportCalls, \* calls of c.client.Do made by this Do call
    sent,           \* the *http.Request handed to the transport (Nil if none)
    steps,          \* the steps this Do call has run, in order
    earlierParams   \* some earlier Do call on this Client carried parameters

vars == <<c, ncErr, pc, r, target, req, resp, buf, bodyClosed, result,
          transportCalls, sent, steps, earlierParams>>

Transport(kind) == [nil |-> FALSE, kind |-> kind]
UserAgentOf(id) == [nil |-> FALSE, UserAgent |-> id]

\* Bodies and responses the transport can hand back.
Bodies == {Nil} \cup
          {[nil |-> FALSE, data |-> d, readErr |-> e] :
               d \in Contents, e \in BOOLEAN}
Responses == {[nil |-> FALSE, StatusCode |-> st, Body |-> b] :
                  st \in Statuses, b \in Bodies}

\* How a Do call ended.
Returned(err, step) == [nil |-> FALSE, kind |-> IF err = Nil THEN "ok" ELSE "error",
                        err |-> err, step |-> step]
Panicked(step) == [nil |-> FALSE, kind |-> "panic", err |-> Nil, step |-> step]

Init ==
    /\ c = Nil
    /\ ncErr = Nil
    /\ pc = "new"
    /\ r = Nil
    /\ target = "nil"
    /\ req = Nil
    /\ resp = Nil
    /\ buf = Nil
    /\ bodyClosed = FALSE
    /\ result = Nil
    /\ transportCalls = 0
    /\ sent = Nil
    /\ steps = << >>
    /\ earlierParams = FALSE

doVars == <<r, target, req, resp, buf, bodyClosed, result, transportCalls,
            sent, steps, earlierParams>>

\* Client.oauth: tokenOK is whether PasswordCredentialsToken succeeded.
oauth(cl, auth, tokenOK) ==
    IF ~tokenOK
    THEN [c |-> cl, err |-> Err("oauth2: cannot fetch token")]
    ELSE [c |-> [cl EXCEPT !.client = Transport("oauth")], err |-> Nil]

\* NewClient: returns the client pointer together with oauth's error.
NewClient ==
    /\ pc = "new"
    /\ \E ua \in {Nil} \cup {UserAgentOf(id) : id \in UserAgents},
          tokenOK \in BOOLEAN :
          LET client == [nil |-> FALSE, baseURL |-> baseURL, client |-> Nil,
                         userAgent |-> ua]
              res == oauth(client, authURL, tokenOK)
          IN  /\ c' = res.c
              /\ ncErr' = res.err
    /\ pc' = "idle"
    /\ UNCHANGED doVars

TestClient ==
    /\ pc = "new"
    /\ \E url \in TestURLs :
          c' = [nil |-> FALSE, baseURL |-> url, client |-> Transport("test"),
                userAgent |-> Nil]
    /\ ncErr' = Nil
    /\ pc' = "idle"
    /\ UNCHANGED doVars

\* Variant: the Client remembers the URL of the request it built.
DoBuildLeaky ==
    /\ pc = "idle"
    /\ \E rq \in Requests, tgt \in Targets :
          LET b == buildRequest(c, rq)
          IN  /\ r' = rq
              /\ target' = tgt
              /\ req' = b.req
              /\ c' = IF b.req # Nil THEN [c EXCEPT !.baseURL = b.req.URL] ELSE c
              /\ IF b.panic
                 THEN /\ result' = Panicked("build")
                      /\ pc' = "done"
                 ELSE IF b.err # Nil
                 THEN /\ result' = Returned(b.err, "build")
                      /\ pc' = "done"
                 ELSE /\ result' = Nil
                      /\ pc' = "built"
    /\ steps' = <<"build">>
    /\ UNCHANGED <<ncErr, resp, buf, bodyClosed, transportCalls, sent,
                   earlierParams>>

\* Do is entered: buildRequest runs; an error or a panic ends the call.
DoBuild ==
    /\ pc = "idle"
    /\ \E rq \in Requests, tgt \in Targets :
          LET b == buildRequest(c, rq)
          IN  /\ r' = rq
              /\ target' = tgt
              /\ req' = b.req
              /\ IF b.panic
                 THEN /\ result' = Panicked("build")
                      /\ pc' = "done"
                 ELSE IF b.err # Nil
                 THEN /\ result' = Returned(b.err, "build")
                      /\ pc' = "done"
                 ELSE /\ result' = Nil
                      /\ pc' = "built"
    /\ steps' = <<"build">>
    /\ UNCHANGED <<c, ncErr, resp, buf, bodyClosed, transportCalls, sent,
                   earlierParams>>

\* doRequest, line 107: c.client.Do(r).  A nil *http.Client panics; otherwise
\* the transport answers with an error or with a response.
DoExecute ==
    /\ pc = "built"
    /\ steps' = Append(steps, "execute")
    /\ IF c.client = Nil
       THEN /\ result' = Panicked("execute")
            /\ pc' = "done"
            /\ UNCHANGED <<resp, transportCalls, sent>>
       ELSE /\ transportCalls' = transportCalls + 1
            /\ sent' = req
            /\ \/ /\ resp' = Nil
                  /\ result' = Returned(Err("transport failed"), "execute")
                  /\ pc' = "done"
               \/ /\ resp' \in Responses
                  /\ result' = Nil
                  /\ pc' = "executed"
    /\ UNCHANGED <<c, ncErr, r, target, req, buf, bodyClosed, earlierParams>>

\* Variant: the status code is not checked.
validateNoStatus(rsp) ==
    IF rsp.Body = Nil THEN Err("empty response body") ELSE Nil

\* Variant: the bad-status error does not carry the response's status code.
validateNoCode(rsp) ==
    IF rsp.Body = Nil THEN Err("empty response body")
    ELSE IF rsp.StatusCode # StatusOK THEN BadStatus(0)
    ELSE Nil

\* doRequest, lines 112-118: the checks made before the body is read.
validate(rsp) ==
    IF rsp.Body = Nil THEN Err("empty response body")
    ELSE IF rsp.StatusCode # StatusOK THEN BadStatus(rsp.StatusCode)
    ELSE Nil

\* doRequest, lines 112-120: on either error doRequest returns before the
\* Close is deferred, and Do returns the error.
DoValidate ==
    /\ pc = "executed"
    /\ steps' = Append(steps, "validate")
    /\ LET err == validate(resp)
       IN  IF err # Nil
           THEN /\ result' = Returned(err, "validate")
                /\ pc' = "done"
           ELSE /\ result' = Nil
                /\ pc' = "validated"
    /\ UNCHANGED <<c, ncErr, r, target, req, resp, buf, bodyClosed,
                   transportCalls, sent, earlierParams>>

\* doRequest, lines 120-126: ReadAll, then the deferred Close as doRequest
\* returns.
DoRead ==
    /\ pc = "validated"
    /\ steps' = Append(steps, "read")
    /\ bodyClosed' = TRUE
    /\ IF resp.Body.readErr
       THEN /\ buf' = Nil
            /\ result' = Returned(Err("reading response body failed"), "read")
            /\ pc' = "done"
       ELSE /\ buf' = [nil |-> FALSE, data |-> resp.Body.data]
            /\ result' = Nil
            /\ pc' = "read"
    /\ UNCHANGED <<c, ncErr, r, target, req, resp, transportCalls, sent,
                   earlierParams>>

\* Do, line 80: the result of json.Unmarshal is returned as it is.
DoDecode ==
    /\ pc = "read"
    /\ steps' = Append(steps, "decode")
    /\ result' = Returned(Unmarshal(buf.data, target), "decode")
    /\ pc' = "done"
    /\ UNCHANGED <<c, ncErr, r, target, req, resp, buf, bodyClosed,
                   transportCalls, sent, earlierParams>>

\* Do has returned to its caller: the call's locals are gone, the Client
\* is ready for the next call.
DoReturn ==
    /\ pc = "done"
    /\ pc' = "idle"
    /\ earlierParams' = (earlierParams \/
                           (r.Values # Nil /\ Encode(r.Values.m) # << >>))
    /\ r' = Nil
    /\ target' = "nil"
    /\ req' = Nil
    /\ resp' = Nil
    /\ buf' = Nil
    /\ bodyClosed' = FALSE
    /\ result' = Nil
    /\ transportCalls' = 0
    /\ sent' = Nil
    /\ steps' = << >>
    /\ UNCHANGED <<c, ncErr>>

Next ==
    \/ NewClient
    \/ TestClient
    \/ DoBuild
    \/ DoExecute
    \/ DoValidate
    \/ DoRead
    \/ DoDecode
    \/ DoReturn

Spec == Init /\ [][Next]_vars

\* ------------------------------------------------- reading a query back
\* The receiver's side of a form encoding (url.ParseQuery), used to state
\* what a query string or form body carries.
RECURSIVE IndexOf(_, _, _)
IndexOf(s, t, i) ==
    IF i > Len(s) THEN 0
    ELSE IF s[i] = t THEN i
    ELSE IndexOf(s, t, i + 1)

RECURSIVE SplitOn(_, _)
SplitOn(s, t) ==
    LET i == IndexOf(s, t, 1)
    IN  IF i = 0 THEN <<s>>
        ELSE <<SubSeq(s, 1, i - 1)>> \o SplitOn(SubSeq(s, i + 1, Len(s)), t)

UnescapeHex(h1, h2) ==
    CASE <<h1, h2>> = <<"2", "5">> -> "%"
      [] <<h1, h2>> = <<"2", "6">> -> "&"
      [] <<h1, h2>> = <<"2", "B">> -> "+"
      [] <<h1, h2>> = <<"3", "D">> -> "="
      [] <<h1, h2>> = <<"3", "F">> -> "?"
      [] OTHER -> "invalid"

RECURSIVE QueryUnescape(_)
QueryUnescape(s) ==
    IF s = << >> THEN << >>
    ELSE IF Head(s) = "+" THEN <<" ">> \o QueryUnescape(Tail(s))
    ELSE IF Head(s) = "%" /\ Len(s) >= 3
    THEN <<UnescapeHex(s[2], s[3])>> \o QueryUnescape(SubSeq(s, 4, Len(s)))
    ELSE <<Head(s)>> \o QueryUnescape(Tail(s))

\* One "key=value" segment as a pair.
ParsePair(seg) ==
    LET i == IndexOf(seg, "=", 1)
    IN  IF i = 0 THEN <<QueryUnescape(seg), << >> >>
        ELSE <<QueryUnescape(SubSeq(seg, 1, i - 1)),
               QueryUnescape(SubSeq(seg, i + 1, Len(seg)))>>

\* The pairs a query string carries, in the order they appear.
ParseQuery(q) ==
    LET segs == SelectSeq(SplitOn(q, "&"), LAMBDA seg : seg # << >>)
    IN  [i \in 1..Len(segs) |-> ParsePair(segs[i])]

\* The values the pairs give to key k, in order.
ValuesOf(pairs, k) ==
    LET sel == SelectSeq(pairs, LAMBDA pr : pr[1] = k)
    IN  [i \in 1..Len(sel) |-> sel[i][2]]

\* q carries exactly the parameters of the *url.Values vals: no pair for a
\* key vals lacks, and for each key of vals its values in their order.
CarriesExactly(q, vals) ==
    LET pairs == ParseQuery(q)
    IN  IF vals = Nil THEN pairs = << >>
        ELSE /\ \A i \in 1..Len(pairs) : pairs[i][1] \in DOMAIN vals.m
             /\ \A k \in DOMAIN vals.m : ValuesOf(pairs, k) = vals.m[k]

\* The part of a URL after its first "?" (empty if there is none).
QueryPart(u) ==
    LET i == IndexOf(u, "?", 1)
    IN  IF i = 0 THEN << >> ELSE SubSeq(u, i + 1, Len(u))

HasParams(vals) == vals # Nil /\ \E k \in DOMAIN vals.m : vals.m[k] # << >>

Order == <<"build", "execute", "validate", "read", "decode">>

\* ------------------------------------------------------------------ claims

\* C1: whenever the transport returned a response with a body, that body has
\* been closed by the time Do returns, on every outcome.
C1_BodyClosedOnReturn ==
    (pc = "done" /\ resp # Nil /\ resp.Body # Nil) => bodyClosed

\* C2: when the token exchange fails, NewClient returns an error and a nil
\* Client.
C2_NoClientOnAuthFailure ==
    ncErr # Nil => c = Nil

\* C3: a POST Request with nil Values makes Do return the error "no values
\* for POST body" from the build step, and the transport is never invoked.
C3_PostNilValues ==
    (r # Nil /\ r.Action = POST /\ r.Values = Nil) =>
        /\ pc = "done"
        /\ result = Returned(Err("no values for POST body"), "build")
        /\ transportCalls = 0
        /\ sent = Nil

C3_Witness ==
    /\ pc = "done"
    /\ r # Nil
    /\ r.Action = POST
    /\ r.Values = Nil
    /\ c.client # Nil

\* C4 as stated: every response with a status other than 200 makes Do return
\* a bad-status error carrying that status, also when it has no body.
C4_BadStatusAlways ==
    (pc = "done" /\ resp # Nil /\ resp.StatusCode # StatusOK) =>
        result = Returned(BadStatus(resp.StatusCode), "validate")

\* C4 amended: a response with a body and a status other than 200 makes Do
\* return a bad-status error carrying that status, whatever the body holds;
\* a response without a body makes Do return the empty-body error, whatever
\* its status.
C4_BadStatusWithBody ==
    (pc = "done" /\ resp # Nil) =>
        /\ (resp.Body # Nil /\ resp.StatusCode # StatusOK) =>
               result = Returned(BadStatus(resp.StatusCode), "validate")
        /\ resp.Body = Nil =>
               result = Returned(Err("empty response body"), "validate")

C4_Witness ==
    /\ pc = "done"
    /\ resp # Nil
    /\ resp.StatusCode = 404
    /\ resp.Body # Nil
    /\ resp.Body.data # << >>
    /\ result.kind = "error"

\* C5: a response with status 200 and an empty body, absent or present with
\* zero bytes, makes Do return the empty-body error.
C5_EmptyBodyFailure ==
    (/\ pc = "done"
     /\ resp # Nil
     /\ resp.StatusCode = StatusOK
     /\ \/ resp.Body = Nil
        \/ (resp.Body.data = << >> /\ ~resp.Body.readErr)) =>
        (result.kind = "error" /\ result.err = Err("empty response body"))

C7_NoSharedState ==
    [][/\ c # Nil => c' = c
       /\ sent' # Nil =>
            /\ CarriesExactly(QueryPart(sent'.URL),
                              IF r'.Action = GET THEN r'.Values ELSE Nil)
            /\ sent'.Body # Nil => CarriesExactly(sent'.Body.data, r'.Values)]_vars

C7_Witness ==
    /\ earlierParams
    /\ sent # Nil
    /\ r.Values = Nil
    /\ sent.URL = c.baseURL \o r.URL
    /\ sent.Body = Nil

\* C8: every request handed to the transport has the user-agent header of the
\* Client's identification string; it has the form content-type header exactly
\* when the Action is POST; a POST carries the encoded parameters in its body
\* and a GET has no body.
C8_Headers ==
    sent # Nil =>
        /\ sent.Header["User-Agent"] =
               <<IF c.userAgent = Nil THEN "" ELSE c.userAgent.UserAgent>>
        /\ r.Action = POST =>
               /\ sent.Method = "POST"
               /\ sent.Header["Content-Type"] = <<contentType>>
               /\ sent.Body # Nil
               /\ CarriesExactly(sent.Body.data, r.Values)
        /\ r.Action # POST =>
               /\ sent.Method = "GET"
               /\ sent.Header["Content-Type"] = << >>
               /\ sent.Body = Nil

C8_Witness ==
    /\ sent # Nil
    /\ r.Action = POST
    /\ HasParams(r.Values)
    /\ c.userAgent # Nil

\* C9: for a GET with parameters the URL handed to the transport is base URL
\* + path + "?" + a query carrying exactly the Request's parameters, the
\* values of a key in their order; without parameters it is base URL + path.
C9_GetQuery ==
    (sent # Nil /\ r.Action = GET) =>
        LET prefix == c.baseURL \o r.URL
            n == Len(prefix)
        IN  IF r.Values = Nil THEN sent.URL = prefix
            ELSE /\ Len(sent.URL) > n
                 /\ SubSeq(sent.URL, 1, n + 1) = prefix \o <<"?">>
                 /\ CarriesExactly(SubSeq(sent.URL, n + 2, Len(sent.URL)),
                                   r.Values)

C9_Witness ==
    /\ sent # Nil
    /\ r.Action = GET
    /\ r.Values # Nil
    /\ Cardinality(DOMAIN r.Values.m) = 2
    /\ \E k \in DOMAIN r.Values.m :
          /\ Len(r.Values.m[k]) = 2
          /\ r.Values.m[k][1] # r.Values.m[k][2]

\* C10: for an Action that is neither GET nor POST buildRequest builds nothing
\* and reports no error, so Do ends in a nil dereference in the build step and
\* returns no error value; the transport is never called.
C10_UnknownActionPanics ==
    (r # Nil /\ r.Action \notin {GET, POST}) =>
        /\ pc = "done"
        /\ result = Panicked("build")
        /\ req = Nil
        /\ transportCalls = 0
        /\ sent = Nil

C10_Witness ==
    /\ pc = "done"
    /\ r # Nil
    /\ r.Action = 2
    /\ c.client # Nil
    /\ result.kind = "panic"

====
